---- MODULE Spec2Model ----
(***************************************************************************)
(* The XR session lifecycle of bevy_openxr (src/src/xr_init/mod.rs) as a   *)
(* state machine.  One frame of the Bevy app is the sequence of schedules  *)
(*   First -> PreUpdate -> Update -> PostUpdate -> Extract                 *)
(* and the four session systems registered by XrInitPlugin::build are run  *)
(* inside PreUpdate (setup_xr, cleanup_xr) and PostUpdate                  *)
(* (start_xr_session, stop_xr_session), each behind an on_event run        *)
(* condition.  Systems of one schedule that have no ordering between them  *)
(* run in any order; exclusive systems (setup_xr, cleanup_xr) run their    *)
(* schedules one after the other.                                          *)
(***************************************************************************)
EXTENDS Integers, Sequences, FiniteSets, TLC

\* Most events of one type the application or the runtime sends in a frame.
MaxSend == 2

\* enum XrStatus
XrStatus == {"NoInstance", "Enabled", "Enabling", "Disabled", "Disabling"}

\* The four events added by XrEarlyInitPlugin::build.
EventTypes == {"StartXrSession", "EndXrSession", "SetupXrData", "CleanupXrData"}

\* The resources start_xr_session queues for insertion, in the order of its
\* commands.insert_resource calls.
SessionResources ==
    << "XrSession", "XrResolution", "XrFormat", "XrSessionRunning",
       "XrFrameWaiter", "XrSwapchain", "XrInput", "XrViews", "XrFrameState" >>

\* Mutant: XrPrePostSetup and XrPostSetup are run the other way round.
SetupSchedules_swapped ==
    << "XrPreSetup", "XrSetup", "XrPostSetup", "XrPrePostSetup" >>

\* Mutant: XrPreCleanup is run twice and XrCleanup not at all.
CleanupSchedules_repeated == << "XrPreCleanup", "XrPreCleanup", "XrPostCleanup" >>

\* The schedules setup_xr and cleanup_xr run, in the order of their calls.
SetupSchedules == << "XrPreSetup", "XrSetup", "XrPrePostSetup", "XrPostSetup" >>
CleanupSchedules == << "XrPreCleanup", "XrCleanup", "XrPostCleanup" >>

\* The resources setup_manual_texture_views takes as system parameters.
TextureViewParams == {"XrSwapchain", "XrResolution", "XrFormat"}

\* The systems XrInitPlugin::build adds to PreUpdate and to PostUpdate.
PreUpdateSystems == {"setup_xr", "cleanup_xr"}
PostUpdateSystems == {"start_xr_session", "stop_xr_session"}

\* The results graphics::start_xr_session can return.
BackendResults == {"Ok", "Err"}

Range(s) == {s[i] : i \in 1..Len(s)}

VARIABLES
    status,                \* the XrStatus resource of the main world
    render_status,         \* the render world's extracted copy ("None" before the first extraction)
    resources,             \* session resources present in the main world
    commands,              \* resource insertions queued by Commands, not yet applied
    manual_texture_views,  \* handles inserted into ManualTextureViews
    events,                \* per event type: events its reader has not read, in the old (a) and new (b) buffer
    pc,                    \* the schedule of the frame that runs next
    todo,                  \* systems of the current schedule not run yet
    sys,                   \* the exclusive system that is running, or "none"
    sysPc,                 \* number of schedules the running exclusive system has completed
    crashed,               \* a system panicked on a missing resource; the app has stopped
    last,                  \* observation of the last session system whose run condition was evaluated
    gated,                 \* observation of the last evaluation of a system gated by xr_only
    frameStart,            \* XrStatus when the current frame began
    framePending,          \* some run condition was true in the current frame
    setupPending,          \* a start was accepted and setup_xr has not finished since
    disturbed,             \* an EndXrSession or CleanupXrData event was sent or pending since the accepted start
    stopPending,           \* a stop was handled on an Enabled session and cleanup_xr has not finished since
    exitReported           \* a CleanupXrData event was sent since that stop

vars == << status, render_status, resources, commands, manual_texture_views,
           events, pc, todo, sys, sysPc, crashed, last, gated, frameStart,
           framePending, setupPending, disturbed, stopPending, exitReported >>

----------------------------------------------------------------------------
\* Bevy's Events<T> as seen by the one reader of each type.

\* EventWriter::send, n times: new events go to the new buffer.
Send(ev, t, n) == [ev EXCEPT ![t].b = @ + n]

\* Number of events of type t the reader has not read.
Unread(ev, t) == ev[t].a + ev[t].b

\* The unread counts of every type.
UnreadAll(ev) == [t \in EventTypes |-> Unread(ev, t)]

\* No event has been sent.
NoEvents == [t \in EventTypes |-> [a |-> 0, b |-> 0]]

\* EventReader::read().count(): the reader's cursor moves past every event.
Read(ev, t) == [ev EXCEPT ![t] = [a |-> 0, b |-> 0]]

\* Events::update, once per frame for every type: the old buffer is dropped and
\* the new one becomes the old one.
EventsUpdate(ev) == [t \in EventTypes |-> [a |-> ev[t].b, b |-> 0]]

\* The mutant of on_event: the run condition is always true.
on_event_always(ev, t) == TRUE

\* run_if(on_event::<T>()): true when the reader has unread events.
on_event(ev, t) == Unread(ev, t) > 0

\* The mutant of xr_only: true for every status that has a session.
xr_only_any_session(st) == st \in {"Enabled", "Enabling", "Disabling"}

\* xr_only: resource_equals(XrStatus::Enabled)
xr_only(st) == st = "Enabled"

\* Mutant: the render world's copy is inserted once and never updated.
extract_once(main, render) == IF render = "None" THEN main ELSE render

\* ExtractResource for XrStatus: the render world's copy becomes a clone of
\* the main world's value.
extract_resource(main, render) == main

\* The event each session system is gated by.
EventOf(s) ==
    CASE s = "setup_xr" -> "SetupXrData"
      [] s = "cleanup_xr" -> "CleanupXrData"
      [] s = "start_xr_session" -> "StartXrSession"
      [] s = "stop_xr_session" -> "EndXrSession"

----------------------------------------------------------------------------
\* start_xr_session

\* Mutant: a start without instance is not ignored.
start_ignored_not_noinstance(st) == st \in {"Enabled", "Enabling", "Disabling"}

\* Mutant: a start while a session is being enabled is not ignored.
start_ignored_not_enabling(st) == st \in {"NoInstance", "Enabled", "Disabling"}

\* The match on *status: every status but Disabled returns early.
start_ignored(st) == st \in {"NoInstance", "Enabled", "Enabling", "Disabling"}

\* Mutant: an ignored start still sends SetupXrData.
start_return_sends(st) ==
    [status |-> st, cmds |-> << >>, sent |-> 1, backend |-> "NotCalled"]

\* The early return of an ignored start.
start_return(st) ==
    [status |-> st, cmds |-> << >>, sent |-> 0, backend |-> "NotCalled"]

\* Mutant: the error branch still sends SetupXrData.
start_err_sends(st) ==
    [status |-> st, cmds |-> << >>, sent |-> 1, backend |-> "Err"]

\* The Err branch of the backend call: log and return.
start_err(st) ==
    [status |-> st, cmds |-> << >>, sent |-> 0, backend |-> "Err"]

\* Mutant: the swapchain is not inserted.
start_ok_no_swapchain(st) ==
    [status |-> "Enabling",
     cmds |-> SelectSeq(SessionResources, LAMBDA r : r # "XrSwapchain"),
     sent |-> 1, backend |-> "Ok"]

\* Mutant: the format is not inserted.
start_ok_no_format(st) ==
    [status |-> "Enabling",
     cmds |-> SelectSeq(SessionResources, LAMBDA r : r # "XrFormat"),
     sent |-> 1, backend |-> "Ok"]

\* Mutant: SetupXrData is not sent.
start_ok_no_event(st) ==
    [status |-> "Enabling", cmds |-> SessionResources, sent |-> 0, backend |-> "Ok"]

\* The Ok branch: nine insertions are queued, the status is set and one
\* SetupXrData is sent.
start_ok(st) ==
    [status |-> "Enabling", cmds |-> SessionResources, sent |-> 1, backend |-> "Ok"]

\* The body of start_xr_session on status st when the backend returns res.
start_xr_session(st, res) ==
    IF start_ignored(st) THEN start_return(st)
    ELSE IF res = "Err" THEN start_err(st)
    ELSE start_ok(st)

\* stop_xr_session: the status it writes after session.request_exit().
stop_xr_session(st) == "Enabling"

\* setup_xr: the status it writes after its schedules.
setup_xr_status(st) == "Enabled"

\* Mutant: cleanup_xr leaves the status as it is.
cleanup_xr_keeps(st) == st

\* cleanup_xr: the status it writes after its schedules.
cleanup_xr_status(st) == "Disabled"

----------------------------------------------------------------------------
NoRun == [sys |-> "none", ran |-> FALSE, pending |-> UnreadAll(NoEvents),
          pre |-> "Disabled",
          post |-> "Disabled", backend |-> "NotCalled", queued |-> << >>,
          sent |-> 0, log |-> << >>, owed |-> FALSE]

NoGated == [ran |-> FALSE, status |-> "Disabled", pending |-> FALSE]

Init ==
    /\ status \in {"NoInstance", "Disabled"}
    /\ render_status = "None"
    /\ resources = {}
    /\ commands = << >>
    /\ manual_texture_views = {}
    /\ events = NoEvents
    /\ pc = "First"
    /\ todo = {}
    /\ sys = "none"
    /\ sysPc = 0
    /\ crashed = FALSE
    /\ last = NoRun
    /\ gated = NoGated
    /\ frameStart = status
    /\ framePending = FALSE
    /\ setupPending = FALSE
    /\ disturbed = FALSE
    /\ stopPending = FALSE
    /\ exitReported = FALSE

\* What a session system whose run condition was evaluated leaves in `last`,
\* before its body has run.
Skipped(s) == [NoRun EXCEPT !.sys = s, !.pre = status, !.post = status,
                            !.pending = UnreadAll(events),
                            !.owed = setupPending]

\* First: event_update_system swaps the buffers of every event type.
EventUpdate ==
    /\ pc = "First" /\ ~crashed
    /\ events' = EventsUpdate(events)
    /\ pc' = "PreUpdate"
    /\ todo' = PreUpdateSystems
    /\ frameStart' = status
    /\ framePending' = FALSE
    /\ UNCHANGED << status, render_status, resources, commands,
                    manual_texture_views, sys, sysPc, crashed, last, gated,
                    setupPending, disturbed, stopPending, exitReported >>

----------------------------------------------------------------------------
\* PreUpdate: setup_xr.run_if(on_event::<SetupXrData>())

\* The run condition of setup_xr is evaluated; when it is true setup_xr starts.
RunSetupXr ==
    /\ pc = "PreUpdate" /\ sys = "none" /\ "setup_xr" \in todo /\ ~crashed
    /\ events' = Read(events, EventOf("setup_xr"))
    /\ IF on_event(events, EventOf("setup_xr"))
       THEN /\ sys' = "setup_xr"
            /\ sysPc' = 0
            /\ todo' = todo
            /\ framePending' = TRUE
            /\ last' = [Skipped("setup_xr") EXCEPT !.ran = TRUE]
       ELSE /\ todo' = todo \ {"setup_xr"}
            /\ last' = Skipped("setup_xr")
            /\ UNCHANGED << sys, sysPc, framePending >>
    /\ UNCHANGED << status, render_status, resources, commands,
                    manual_texture_views, pc, crashed, gated, frameStart,
                    setupPending, disturbed, stopPending, exitReported >>

\* setup_xr runs its next schedule.  XrSetup holds setup_manual_texture_views,
\* whose Res parameters must exist.
SetupXrSchedule ==
    /\ sys = "setup_xr" /\ sysPc < Len(SetupSchedules) /\ ~crashed
    /\ IF SetupSchedules[sysPc + 1] = "XrSetup"
       THEN IF TextureViewParams \subseteq resources
            THEN /\ manual_texture_views' =
                        manual_texture_views \cup
                            {"LEFT_XR_TEXTURE_HANDLE", "RIGHT_XR_TEXTURE_HANDLE"}
                 /\ sysPc' = sysPc + 1
                 /\ last' = [last EXCEPT !.log = Append(@, SetupSchedules[sysPc + 1])]
                 /\ UNCHANGED crashed
            ELSE /\ crashed' = TRUE
                 /\ UNCHANGED << manual_texture_views, sysPc, last >>
       ELSE /\ sysPc' = sysPc + 1
            /\ last' = [last EXCEPT !.log = Append(@, SetupSchedules[sysPc + 1])]
            /\ UNCHANGED << manual_texture_views, crashed >>
    /\ UNCHANGED << status, render_status, resources, commands, events, pc,
                    todo, sys, gated, frameStart, framePending,
                    setupPending, disturbed, stopPending, exitReported >>

\* setup_xr has run its four schedules and writes the status.
SetupXrDone ==
    /\ sys = "setup_xr" /\ sysPc = Len(SetupSchedules) /\ ~crashed
    /\ status' = setup_xr_status(status)
    /\ sys' = "none"
    /\ sysPc' = 0
    /\ todo' = todo \ {"setup_xr"}
    /\ last' = [last EXCEPT !.post = status']
    /\ setupPending' = FALSE
    /\ UNCHANGED << render_status, resources, commands, manual_texture_views,
                    events, pc, crashed, gated, frameStart, framePending,
                    disturbed, stopPending, exitReported >>

\* PreUpdate: cleanup_xr.run_if(on_event::<CleanupXrData>())
RunCleanupXr ==
    /\ pc = "PreUpdate" /\ sys = "none" /\ "cleanup_xr" \in todo /\ ~crashed
    /\ events' = Read(events, EventOf("cleanup_xr"))
    /\ IF on_event(events, EventOf("cleanup_xr"))
       THEN /\ sys' = "cleanup_xr"
            /\ sysPc' = 0
            /\ todo' = todo
            /\ framePending' = TRUE
            /\ last' = [Skipped("cleanup_xr") EXCEPT !.ran = TRUE]
       ELSE /\ todo' = todo \ {"cleanup_xr"}
            /\ last' = Skipped("cleanup_xr")
            /\ UNCHANGED << sys, sysPc, framePending >>
    /\ UNCHANGED << status, render_status, resources, commands,
                    manual_texture_views, pc, crashed, gated, frameStart,
                    setupPending, disturbed, stopPending, exitReported >>

\* cleanup_xr runs its next schedule.
CleanupXrSchedule ==
    /\ sys = "cleanup_xr" /\ sysPc < Len(CleanupSchedules) /\ ~crashed
    /\ sysPc' = sysPc + 1
    /\ last' = [last EXCEPT !.log = Append(@, CleanupSchedules[sysPc + 1])]
    /\ UNCHANGED << status, render_status, resources, commands,
                    manual_texture_views, events, pc, todo, sys, crashed,
                    gated, frameStart, framePending, setupPending, disturbed,
                    stopPending, exitReported >>

\* cleanup_xr has run its three schedules and writes the status.
CleanupXrDone ==
    /\ sys = "cleanup_xr" /\ sysPc = Len(CleanupSchedules) /\ ~crashed
    /\ status' = cleanup_xr_status(status)
    /\ sys' = "none"
    /\ sysPc' = 0
    /\ todo' = todo \ {"cleanup_xr"}
    /\ last' = [last EXCEPT !.post = status']
    /\ stopPending' = (stopPending /\ status' # "Disabled")
    /\ exitReported' = (exitReported /\ status' # "Disabled")
    /\ UNCHANGED << render_status, resources, commands, manual_texture_views,
                    events, pc, crashed, gated, frameStart, framePending,
                    setupPending, disturbed >>

\* Both systems of PreUpdate have been dealt with.
PreUpdateDone ==
    /\ pc = "PreUpdate" /\ sys = "none" /\ todo = {} /\ ~crashed
    /\ pc' = "Update"
    /\ UNCHANGED << status, render_status, resources, commands,
                    manual_texture_views, events, todo, sys, sysPc, crashed,
                    last, gated, frameStart, framePending, setupPending,
                    disturbed, stopPending, exitReported >>

----------------------------------------------------------------------------
\* Update: the application sends StartXrSession and EndXrSession events and
\* the runtime's event poll sends CleanupXrData events.
UpdateSchedule ==
    /\ pc = "Update" /\ ~crashed
    /\ \E ns, ne, nc \in 0..MaxSend :
          /\ events' = Send(Send(Send(events, "StartXrSession", ns),
                                 "EndXrSession", ne), "CleanupXrData", nc)
          /\ disturbed' = (disturbed \/ (setupPending /\ (ne > 0 \/ nc > 0)))
          /\ exitReported' = (exitReported \/ (stopPending /\ nc > 0))
    /\ pc' = "PostUpdate"
    /\ todo' = PostUpdateSystems
    /\ UNCHANGED << status, render_status, resources, commands,
                    manual_texture_views, sys, sysPc, crashed, last, gated,
                    frameStart, framePending, setupPending, stopPending >>

----------------------------------------------------------------------------
\* PostUpdate: start_xr_session.run_if(on_event::<StartXrSession>())
RunStartXrSession ==
    /\ pc = "PostUpdate" /\ "start_xr_session" \in todo /\ ~crashed
    /\ todo' = todo \ {"start_xr_session"}
    /\ IF on_event(events, EventOf("start_xr_session"))
       THEN \E res \in BackendResults :
              LET out == start_xr_session(status, res)
                  ev == Read(events, EventOf("start_xr_session"))
              IN /\ status' = out.status
                 /\ commands' = commands \o out.cmds
                 /\ events' = Send(ev, "SetupXrData", out.sent)
                 /\ framePending' = TRUE
                 /\ last' = [sys |-> "start_xr_session", ran |-> TRUE,
                             pending |-> UnreadAll(events),
                             pre |-> status, post |-> out.status,
                             backend |-> out.backend, queued |-> out.cmds,
                             sent |-> out.sent, log |-> << >>,
                             owed |-> setupPending]
                 /\ IF out.backend = "Ok"
                    THEN /\ setupPending' = TRUE
                         /\ disturbed' = (Unread(ev, "EndXrSession") > 0
                                            \/ Unread(ev, "CleanupXrData") > 0)
                    ELSE UNCHANGED << setupPending, disturbed >>
       ELSE /\ events' = Read(events, EventOf("start_xr_session"))
            /\ last' = Skipped("start_xr_session")
            /\ UNCHANGED << status, commands, framePending, setupPending,
                            disturbed >>
    /\ UNCHANGED << render_status, resources, manual_texture_views, pc, sys,
                    sysPc, crashed, gated, frameStart, stopPending,
                    exitReported >>

\* PostUpdate: stop_xr_session.run_if(on_event::<EndXrSession>()).  Its
\* ResMut<XrSession> parameter must exist.
RunStopXrSession ==
    /\ pc = "PostUpdate" /\ "stop_xr_session" \in todo /\ ~crashed
    /\ todo' = todo \ {"stop_xr_session"}
    /\ events' = Read(events, EventOf("stop_xr_session"))
    /\ IF on_event(events, EventOf("stop_xr_session"))
       THEN IF "XrSession" \in resources
            THEN /\ status' = stop_xr_session(status)
                 /\ framePending' = TRUE
                 /\ last' = [Skipped("stop_xr_session") EXCEPT !.ran = TRUE, !.post = status']
                 /\ stopPending' = (stopPending \/ status = "Enabled")
                 /\ exitReported' = (exitReported /\ status # "Enabled")
                 /\ UNCHANGED crashed
            ELSE /\ crashed' = TRUE
                 /\ framePending' = TRUE
                 /\ UNCHANGED << status, last, stopPending, exitReported >>
       ELSE /\ last' = Skipped("stop_xr_session")
            /\ UNCHANGED << status, framePending, crashed, stopPending,
                            exitReported >>
    /\ UNCHANGED << render_status, resources, commands, manual_texture_views,
                    pc, sys, sysPc, gated, frameStart, setupPending, disturbed >>

\* Both systems of PostUpdate have been dealt with: the queued commands are
\* applied to the world.
PostUpdateDone ==
    /\ pc = "PostUpdate" /\ todo = {} /\ ~crashed
    /\ resources' = resources \cup Range(commands)
    /\ commands' = << >>
    /\ pc' = "Extract"
    /\ UNCHANGED << status, render_status, manual_texture_views, events, todo,
                    sys, sysPc, crashed, last, gated, frameStart, framePending,
                    setupPending, disturbed, stopPending, exitReported >>

\* ExtractResourcePlugin::<XrStatus>: the render world gets the main world's
\* value, and the next frame begins.
Extract ==
    /\ pc = "Extract" /\ ~crashed
    /\ render_status' = extract_resource(status, render_status)
    /\ pc' = "First"
    /\ UNCHANGED << status, resources, commands, manual_texture_views, events,
                    todo, sys, sysPc, crashed, last, gated, frameStart,
                    framePending, setupPending, disturbed, stopPending,
                    exitReported >>

\* A system with run_if(xr_only()), in any schedule (those run by setup_xr and
\* cleanup_xr included): its run condition is evaluated on the current status.
XrOnlySystem ==
    /\ ~crashed
    /\ gated' = [ran |-> xr_only(status), status |-> status,
                 pending |-> setupPending]
    /\ UNCHANGED << status, render_status, resources, commands,
                    manual_texture_views, events, pc, todo, sys, sysPc, crashed,
                    last, frameStart, framePending, setupPending, disturbed,
                    stopPending, exitReported >>

\* The steps of the app's frame loop.
Frame ==
    \/ EventUpdate
    \/ RunSetupXr
    \/ SetupXrSchedule
    \/ SetupXrDone
    \/ RunCleanupXr
    \/ CleanupXrSchedule
    \/ CleanupXrDone
    \/ PreUpdateDone
    \/ UpdateSchedule
    \/ RunStartXrSession
    \/ RunStopXrSession
    \/ PostUpdateDone
    \/ Extract

Next == Frame \/ XrOnlySystem

Spec == Init /\ [][Next]_vars

\* The app's runner keeps running frames.
LiveSpec == Spec /\ WF_vars(Frame)

\* The app in the Update schedule of the frame in which setup_xr has completed
\* the first successful start (setup_xr ran before cleanup_xr was skipped).
InitEnabled ==
    /\ status = "Enabled"
    /\ render_status = "Enabling"
    /\ resources = Range(SessionResources)
    /\ commands = << >>
    /\ manual_texture_views = {"LEFT_XR_TEXTURE_HANDLE", "RIGHT_XR_TEXTURE_HANDLE"}
    /\ events = NoEvents
    /\ pc = "Update"
    /\ todo = {}
    /\ sys = "none"
    /\ sysPc = 0
    /\ crashed = FALSE
    /\ last = [NoRun EXCEPT !.sys = "cleanup_xr", !.pre = "Enabled",
                            !.post = "Enabled"]
    /\ gated = NoGated
    /\ frameStart = "Enabling"
    /\ framePending = TRUE
    /\ setupPending = FALSE
    /\ disturbed = FALSE
    /\ stopPending = FALSE
    /\ exitReported = FALSE

\* The frames that follow the completion of the first start.
SpecEnabled == InitEnabled /\ [][Next]_vars

----------------------------------------------------------------------------
\* Properties of the session state machine.

\* The step in which start_xr_session runs its body.
StartStep ==
    /\ pc = "PostUpdate"
    /\ "start_xr_session" \in todo
    /\ "start_xr_session" \notin todo'
    /\ last'.sys = "start_xr_session"
    /\ last'.ran

\* start_xr_session has left the world, the command queue and the SetupXrData
\* events as they were.
StartChangedNothing ==
    /\ status' = status
    /\ commands' = commands
    /\ resources' = resources
    /\ events'["SetupXrData"] = events["SetupXrData"]

\* The links of the chain NoInstance -> Enabling -> Enabled -> Disabling -> Disabled.
Chain ==
    { << "NoInstance", "Enabling" >>, << "Enabling", "Enabled" >>,
      << "Enabled", "Disabling" >>, << "Disabling", "Disabled" >> }

\* C1: every change of XrStatus made by the session systems is one link of the
\* chain NoInstance -> Enabling -> Enabled -> Disabling -> Disabled.
C1_StatusFollowsChain ==
    [][status' # status => << status, status' >> \in Chain]_vars

\* The state SpecEnabled begins in is a state of Spec.
NotInitEnabled == ~InitEnabled

\* C2: a session system runs only if an event of its own type is pending when
\* its run condition is evaluated, and XrStatus is as it was at the start of
\* the frame as long as no run condition has been true in the frame.
C2_EventGated ==
    /\ last.ran => /\ last.sys \in PreUpdateSystems \cup PostUpdateSystems
                   /\ last.sys = "start_xr_session" => last.pending["StartXrSession"] > 0
                   /\ last.sys = "stop_xr_session" => last.pending["EndXrSession"] > 0
                   /\ last.sys = "setup_xr" => last.pending["SetupXrData"] > 0
                   /\ last.sys = "cleanup_xr" => last.pending["CleanupXrData"] > 0
    /\ ~framePending => status = frameStart

\* A frame in which no event was pending has ended with a session enabled.
C2_Witness == pc = "Extract" /\ ~framePending /\ status = "Enabled"

\* C3: when stop_xr_session handles an EndXrSession event while XrStatus is
\* Enabled, XrStatus becomes Disabling.
C3_StopMarksDisabling ==
    (last.sys = "stop_xr_session" /\ last.ran /\ last.pre = "Enabled")
        => last.post = "Disabling"

\* C4: a system gated by xr_only runs exactly when XrStatus is Enabled, and
\* never between an accepted start and the end of setup_xr.
C4_XrOnlyMeansEnabled ==
    /\ gated.ran <=> gated.status = "Enabled"
    /\ gated.pending => ~gated.ran

\* The gate was evaluated, and was false, inside a schedule run by setup_xr
\* after an accepted start.
C4_Witness ==
    /\ sys = "setup_xr" /\ sysPc > 0
    /\ gated.pending /\ ~gated.ran /\ gated.status = "Enabling"

\* C5: after start_xr_session has accepted a start (status Disabled, backend
\* Ok), XrStatus eventually becomes Enabled unless an EndXrSession or
\* CleanupXrData event intervenes.
C5_StartLeadsToEnabled ==
    (setupPending /\ ~disturbed) ~> (status = "Enabled" \/ disturbed)

\* setup_xr has finished the accepted start with no event intervening.
C5_Witness ==
    /\ last.sys = "setup_xr" /\ last.ran /\ last.pre = "Enabling"
    /\ status = "Enabled" /\ ~setupPending /\ ~disturbed /\ sys = "none"

\* C6: after stop_xr_session has handled an EndXrSession on an Enabled session
\* and the runtime has then sent CleanupXrData, XrStatus eventually becomes
\* Disabled.
C6_StopLeadsToDisabled ==
    (stopPending /\ exitReported) ~> (status = "Disabled")

\* The stop was handled on an Enabled session and the exit has been reported.
C6_Witness == stopPending /\ exitReported /\ status # "Disabled"

\* C7: a StartXrSession handled while XrStatus is NoInstance changes nothing:
\* no backend call, no resource queued, no SetupXrData sent.
C7_StartWithoutInstanceIgnored ==
    [][(StartStep /\ status = "NoInstance")
          => (StartChangedNothing /\ last'.backend = "NotCalled")]_vars

\* start_xr_session has handled an event while the status was NoInstance.
C7_Witness ==
    /\ last.sys = "start_xr_session" /\ last.ran /\ last.pre = "NoInstance"
    /\ status = "NoInstance"

\* C8: the backend is called only when XrStatus is Disabled, and a
\* StartXrSession handled while the status is Enabled, Enabling or Disabling
\* changes nothing.
C8_StartWhileSessionIgnored ==
    [][StartStep =>
          /\ last'.backend # "NotCalled" => status = "Disabled"
          /\ status \in {"Enabled", "Enabling", "Disabling"}
                => (StartChangedNothing /\ last'.backend = "NotCalled")]_vars

\* start_xr_session has handled an event while a session was being enabled.
C8_Witness ==
    /\ last.sys = "start_xr_session" /\ last.ran /\ last.pre = "Enabling"
    /\ last.backend = "NotCalled"

\* C9: when the backend returns an error, start_xr_session changes nothing and
\* XrStatus stays Disabled; a start handled while Disabled always calls the
\* backend, so the next one is a fresh attempt.
C9_FailedStartChangesNothing ==
    [][StartStep =>
          /\ last'.backend = "Err" => (StartChangedNothing /\ status' = "Disabled")
          /\ status = "Disabled" => last'.backend \in BackendResults]_vars

\* The backend has failed and the status is still Disabled.
C9_Witness ==
    /\ last.sys = "start_xr_session" /\ last.ran /\ last.backend = "Err"
    /\ status = "Disabled"

\* C10: a start handled while Disabled with the backend succeeding queues the
\* nine session resources together, sets XrStatus to Enabling and sends
\* exactly one SetupXrData; the world holds all nine resources or none.
C10_StartAllOrNothing ==
    /\ [](resources = {} \/ (resources = Range(SessionResources)
                               /\ Cardinality(resources) = 9))
    /\ [][(StartStep /\ status = "Disabled" /\ last'.backend = "Ok")
            => /\ status' = "Enabling"
               /\ commands' = commands \o SessionResources
               /\ Cardinality(Range(commands')) = 9
               /\ Unread(events', "SetupXrData") = Unread(events, "SetupXrData") + 1]_vars

\* A start has succeeded: nine insertions are queued and one event is unread.
C10_Witness ==
    /\ last.sys = "start_xr_session" /\ last.backend = "Ok"
    /\ status = "Enabling" /\ Len(commands) = 9
    /\ Unread(events, "SetupXrData") = 1

\* C11: setup_xr runs XrPreSetup, XrSetup, XrPrePostSetup, XrPostSetup once
\* each, in that order, and writes Enabled only after XrPostSetup: while it
\* runs the status is not Enabled and is what it was when setup_xr began.
C11_SetupSchedulesInOrder ==
    /\ [](sys = "setup_xr" =>
            /\ last.sys = "setup_xr" /\ last.ran
            /\ status # "Enabled" /\ status = last.pre
            /\ \E n \in 0..4 :
                  last.log = SubSeq(<< "XrPreSetup", "XrSetup", "XrPrePostSetup",
                                       "XrPostSetup" >>, 1, n))
    /\ []((last.sys = "setup_xr" /\ last.ran /\ sys = "none") =>
            last.log = << "XrPreSetup", "XrSetup", "XrPrePostSetup", "XrPostSetup" >>)
    /\ [][(sys = "setup_xr" /\ status' # status) =>
            /\ last.log = << "XrPreSetup", "XrSetup", "XrPrePostSetup", "XrPostSetup" >>
            /\ status' = "Enabled" /\ sys' = "none"]_vars

\* setup_xr has run XrPostSetup and has not written the status yet.
C11_Witness ==
    /\ sys = "setup_xr" /\ Len(last.log) = 4 /\ last.log[4] = "XrPostSetup"
    /\ status = "Enabling"

\* C12: cleanup_xr runs XrPreCleanup, XrCleanup, XrPostCleanup once each, in
\* that order, and writes Disabled only after XrPostCleanup.
C12_CleanupSchedulesInOrder ==
    /\ [](sys = "cleanup_xr" =>
            /\ last.sys = "cleanup_xr" /\ last.ran
            /\ status = last.pre
            /\ \E n \in 0..3 :
                  last.log = SubSeq(<< "XrPreCleanup", "XrCleanup", "XrPostCleanup" >>,
                                    1, n))
    /\ []((last.sys = "cleanup_xr" /\ last.ran /\ sys = "none") =>
            /\ last.log = << "XrPreCleanup", "XrCleanup", "XrPostCleanup" >>
            /\ last.post = "Disabled")
    /\ [][(sys = "cleanup_xr" /\ status' # status) =>
            /\ last.log = << "XrPreCleanup", "XrCleanup", "XrPostCleanup" >>
            /\ status' = "Disabled" /\ sys' = "none"]_vars

\* cleanup_xr has run XrPostCleanup on an enabled session and has not written
\* the status yet.
C12_Witness ==
    /\ sys = "cleanup_xr" /\ Len(last.log) = 3 /\ last.log[3] = "XrPostCleanup"
    /\ status = "Enabled"

\* C13: setup_xr runs once per accepted start: it runs only for an accepted
\* start whose setup has not run yet, no start is accepted while one is still
\* waiting for its setup, and the setup has run by the Update schedule of the
\* next frame.
C13_SetupOncePerStart ==
    /\ (last.sys = "setup_xr" /\ last.ran) => last.owed
    /\ (last.sys = "start_xr_session" /\ last.backend = "Ok") => ~last.owed
    /\ (last.sys = "start_xr_session" /\ last.backend # "Ok" /\ ~last.owed)
          => (~setupPending /\ Unread(events, "SetupXrData") = 0)
    /\ pc = "Update" => ~setupPending

\* setup_xr has run for an accepted start and the frame has gone on to Update.
C13_Witness ==
    /\ last.sys = "setup_xr" /\ last.ran /\ last.owed
    /\ sys = "none" /\ pc = "Update" /\ status = "Enabled"

\* C14: while setup_xr runs (setup_manual_texture_views in XrSetup included),
\* XrSwapchain, XrResolution and XrFormat are in the world and no insertion is
\* still queued; setup_manual_texture_views never finds a parameter missing.
C14_ResourcesBeforeSetup ==
    /\ sys = "setup_xr" =>
          /\ {"XrSwapchain", "XrResolution", "XrFormat"} \subseteq resources
          /\ commands = << >>
    /\ manual_texture_views # {} =>
          {"XrSwapchain", "XrResolution", "XrFormat"} \subseteq resources
    /\ crashed => sys = "none"

\* setup_manual_texture_views has just run inside XrSetup.
C14_Witness ==
    /\ sys = "setup_xr" /\ last.log = << "XrPreSetup", "XrSetup" >>
    /\ manual_texture_views =
          {"LEFT_XR_TEXTURE_HANDLE", "RIGHT_XR_TEXTURE_HANDLE"}

\* C15: the render world's XrStatus changes only at extraction, to the main
\* world's value; extraction copies Enabled only when setup_xr has completed,
\* and right after an extraction the render world's value is the main world's,
\* so it is not Enabled once the main world has left Enabled.
C15_RenderStatusIsExtracted ==
    /\ [][render_status' # render_status =>
            (pc = "Extract" /\ render_status' = status)]_vars
    /\ [][(pc = "Extract" /\ pc' = "First") =>
            /\ render_status' = status
            /\ status = "Enabled" =>
                  (~setupPending /\ sys = "none" /\ manual_texture_views # {})]_vars
    /\ [](render_status = "Enabled" => (manual_texture_views # {} /\ resources # {}))
    /\ []((pc = "First" /\ render_status # "None") => render_status = status)

\* The main world has left Enabled through stop_xr_session and the following
\* extraction has given the render world the new value.
C15_Witness ==
    /\ pc = "First" /\ stopPending /\ status # "Enabled"
    /\ render_status = status

====
